---- MODULE Spec2Model ----
(***************************************************************************)
(* Model of the multiplayer part of server.py: the game_sessions table and *)
(* the handlers create_game, join_game, game_status, update_board,         *)
(* make_move, finish_game, abort_game and start_game.                      *)
(*                                                                         *)
(* Spec           every handler runs to completion before the next starts. *)
(* SpecCreate     create_game calls run concurrently; a call is split at   *)
(*                its database accesses (the SELECT of the loop, the       *)
(*                INSERT), the loop capped at MaxTries retries.            *)
(* SpecCreateLive the same calls with the loop unbounded, under fair       *)
(*                scheduling.                                              *)
(* SpecConc       join_game, make_move and update_board requests on one    *)
(*                session run concurrently, split at SELECT and commit.    *)
(***************************************************************************)
EXTENDS Naturals, Sequences, FiniteSets, TLC

VARIABLES rows, clock, ret, th

vars == <<rows, clock, ret, th>>

(***************************************************************************)
(* Bounds of the model.                                                    *)
(***************************************************************************)
MaxSessions == 1
MaxTime == 1
NumCodes == 2
NumThreads == 3
MaxTries == 1
NumClients == 2

(***************************************************************************)
(* Values.                                                                 *)
(***************************************************************************)
\* Python None / SQL NULL in a String column.
None == "<None>"
\* Python None / SQL NULL in a JSON column.
JsonNone == [null |-> TRUE]
\* The empty dict {}.
EmptyDict == << >>

\* Player names a request can carry (pydantic str: the empty string is one).
Names == {"alice", "bob", ""}
\* Names a create_game request carries in the model.
HostSamples == {"alice"}

CodeLen == 6
DigitChars == <<"0", "1", "2", "3", "4", "5", "6", "7", "8", "9">>

RECURSIVE DigitsOf(_, _)
DigitsOf(n, k) ==
    IF k = 0 THEN "" ELSE DigitsOf(n \div 10, k - 1) \o DigitChars[(n % 10) + 1]

\* Results of ''.join(random.choices(string.digits, k=6)) the model draws.
Codes == {DigitsOf(n, CodeLen) : n \in 0 .. (NumCodes - 1)}

\* Variant: a generator that reaches past the upper end.
SeedSamples_Over == {0, 1000001}

\* Results of random.randint(0, 1000000) the model draws (both ends).
SeedSamples == {0, 1000000}

SettingsSamples == {[map |-> "m1"]}
MoveSamples == {[unit |-> "u1"], [unit |-> "u2"]}
BoardSamples ==
    {EmptyDict, [units |-> "u1"], [turn |-> "blue"], [turn |-> "red"],
     [turn |-> "green"]}

Times == 0 .. MaxTime
Threads == 1 .. NumThreads
\* The threads that serve the requests on a session.
Clients == 1 .. NumClients

(***************************************************************************)
(* Python helpers.                                                         *)
(***************************************************************************)
\* bool(s) of an Optional[str].
StrTruthy(s) == s # None /\ s # ""
\* bool(d) of a dict.
DictTruthy(d) == DOMAIN d # {}
\* d.get(k)
DictGet(d, k) == IF k \in DOMAIN d THEN d[k] ELSE None

\* db.query(GameSession).filter(GameSession.code == code).first():
\* the id of the first row with that code, 0 when there is none.
Query(t, code) ==
    IF \E i \in 1 .. Len(t) : t[i].code = code
    THEN CHOOSE i \in 1 .. Len(t) :
            t[i].code = code /\ \A j \in 1 .. (i - 1) : t[j].code # code
    ELSE 0

Resp(kind, body) == [kind |-> kind, body |-> body]
Ok(body) == Resp("ok", body)
Fail(kind) == Resp(kind, EmptyDict)
StatusOk == [status |-> "ok"]

Result(t, resp) == [rows |-> t, resp |-> resp]

\* db.commit() of the attributes a handler assigned to the row with id i.
Commit(t, i, s) == [t EXCEPT ![i] = s]

(***************************************************************************)
(* create_game                                                             *)
(***************************************************************************)
\* The loop's test: no row carries the generated code.
CodeFree(t, code) == Query(t, code) = 0

\* GameSession(code=..., host_name=..., settings=..., seed=...,
\*             current_turn=host_name, status="waiting") with the column
\* defaults of the table.
NewSession(code, host_name, settings, seed, now) ==
    [code |-> code,
     host_name |-> host_name,
     guest_name |-> None,
     status |-> "waiting",
     settings |-> settings,
     seed |-> seed,
     current_turn |-> host_name,
     last_move |-> JsonNone,
     board_state |-> JsonNone,
     last_update |-> now]

\* Variant: the table without the unique index on code.
UniqueViolation_NoIndex(t, code) == FALSE

\* The unique index on game_sessions.code rejects a second row with the code.
UniqueViolation(t, code) == \E i \in 1 .. Len(t) : t[i].code = code

\* db.add(new_session); db.commit(); return {...}. A rejected INSERT raises
\* IntegrityError out of the handler (HTTP 500).
InsertSession(t, s) ==
    IF UniqueViolation(t, s.code)
    THEN Result(t, Fail("IntegrityError"))
    ELSE Result(Append(t, s),
                Ok([status |-> "ok", code |-> s.code, seed |-> s.seed]))

(***************************************************************************)
(* join_game                                                               *)
(***************************************************************************)
\* if session.guest_name:
GuestPresent(s) == StrTruthy(s.guest_name)

\* Variant: join_game without the test against the host's name.
IsHost_NoCheck(s, guest_name) == FALSE

\* if session.host_name == request.guest_name:
IsHost(s, guest_name) == s.host_name = guest_name

\* Variant: join_game answering with a seed of its own.
join_game_FreshSeed(t, guest_name, code, now) ==
    LET i == Query(t, code)
        s == t[i]
    IN  IF i = 0 THEN Result(t, Fail("NotFound"))
        ELSE IF GuestPresent(s) THEN Result(t, Fail("AlreadyFull"))
        ELSE IF IsHost(s, guest_name) THEN Result(t, Fail("SelfJoin"))
        ELSE Result(Commit(t, i, [s EXCEPT !.guest_name = guest_name,
                                           !.last_update = now]),
                    Ok([status |-> "ok", settings |-> s.settings,
                        host_name |-> s.host_name, seed |-> 0]))

join_game(t, guest_name, code, now) ==
    LET i == Query(t, code)
        s == t[i]
    IN  IF i = 0 THEN Result(t, Fail("NotFound"))
        ELSE IF GuestPresent(s) THEN Result(t, Fail("AlreadyFull"))
        ELSE IF IsHost(s, guest_name) THEN Result(t, Fail("SelfJoin"))
        ELSE Result(Commit(t, i, [s EXCEPT !.guest_name = guest_name,
                                           !.last_update = now]),
                    Ok([status |-> "ok", settings |-> s.settings,
                        host_name |-> s.host_name, seed |-> s.seed]))

(***************************************************************************)
(* game_status                                                             *)
(***************************************************************************)
game_status(t, code) ==
    LET i == Query(t, code)
        s == t[i]
    IN  IF i = 0 THEN Result(t, Fail("NotFound"))
        ELSE Result(t, Ok([status |-> s.status,
                           host_name |-> s.host_name,
                           guest_name |-> s.guest_name,
                           current_turn |-> s.current_turn,
                           last_move |-> s.last_move,
                           board_state |-> s.board_state,
                           seed |-> s.seed]))

(***************************************************************************)
(* update_board                                                            *)
(***************************************************************************)
\* Variant: any token other than 'blue' and 'red' hands the turn to the host.
SyncTurn_OtherToHost(s, board_state) ==
    IF DictTruthy(board_state)
    THEN LET client_turn == DictGet(board_state, "turn")
         IN  IF StrTruthy(client_turn)
             THEN IF client_turn = "red" THEN s.guest_name ELSE s.host_name
             ELSE s.current_turn
    ELSE s.current_turn

\* Variant: the two colours resolved the other way round.
SyncTurn_Swapped(s, board_state) ==
    IF DictTruthy(board_state)
    THEN LET client_turn == DictGet(board_state, "turn")
         IN  IF StrTruthy(client_turn)
             THEN IF client_turn = "blue" THEN s.guest_name
                  ELSE IF client_turn = "red" THEN s.host_name
                  ELSE s.current_turn
             ELSE s.current_turn
    ELSE s.current_turn

\* The value of current_turn after the 'turn' token of the board was read.
SyncTurn(s, board_state) ==
    IF DictTruthy(board_state)
    THEN LET client_turn == DictGet(board_state, "turn")
         IN  IF StrTruthy(client_turn)
             THEN IF client_turn = "blue" THEN s.host_name
                  ELSE IF client_turn = "red" THEN s.guest_name
                  ELSE s.current_turn
             ELSE s.current_turn
    ELSE s.current_turn

update_board(t, code, username, board_state, now) ==
    LET i == Query(t, code)
        s == t[i]
    IN  IF i = 0 THEN Result(t, Fail("NotFound"))
        ELSE Result(Commit(t, i, [s EXCEPT !.board_state = board_state,
                                           !.current_turn = SyncTurn(s, board_state),
                                           !.last_update = now]),
                    Ok(StatusOk))

(***************************************************************************)
(* make_move                                                               *)
(***************************************************************************)
\* Variant: make_move without the test of the turn.
TurnMismatch_NoCheck(s, username) == FALSE

\* if session.current_turn != request.username:
TurnMismatch(s, username) == s.current_turn # username

\* Variant: the turn always passes to the host.
OtherPlayer_AlwaysHost(s, username) == s.host_name

\* session.guest_name if request.username == session.host_name
\* else session.host_name
OtherPlayer(s, username) ==
    IF username = s.host_name THEN s.guest_name ELSE s.host_name

make_move(t, code, username, move_data, end_turn, now) ==
    LET i == Query(t, code)
        s == t[i]
    IN  IF i = 0 THEN Result(t, Fail("NotFound"))
        ELSE IF TurnMismatch(s, username) THEN Result(t, Fail("NotYourTurn"))
        ELSE Result(Commit(t, i,
                       [s EXCEPT !.last_move = move_data,
                                 !.current_turn =
                                     IF end_turn THEN OtherPlayer(s, username)
                                     ELSE s.current_turn,
                                 !.last_update = now]),
                    Ok(StatusOk))

(***************************************************************************)
(* finish_game, abort_game                                                 *)
(***************************************************************************)
finish_game(t, code) ==
    LET i == Query(t, code)
        s == t[i]
    IN  IF i # 0
        THEN Result(Commit(t, i, [s EXCEPT !.status = "finished"]), Ok(StatusOk))
        ELSE Result(t, Ok(StatusOk))

\* Variant: abort_game answering 404 for a code without a session.
abort_game_Strict(t, code) ==
    LET i == Query(t, code)
        s == t[i]
    IN  IF i # 0
        THEN Result(Commit(t, i, [s EXCEPT !.status = "aborted"]), Ok(StatusOk))
        ELSE Result(t, Fail("NotFound"))

abort_game(t, code) ==
    LET i == Query(t, code)
        s == t[i]
    IN  IF i # 0
        THEN Result(Commit(t, i, [s EXCEPT !.status = "aborted"]), Ok(StatusOk))
        ELSE Result(t, Ok(StatusOk))

(***************************************************************************)
(* start_game                                                              *)
(***************************************************************************)
\* The list random.choice draws from.
FirstTurnChoices(s) == <<s.host_name, s.guest_name>>

\* Variant: start_game without the test for a missing session.
start_game_NoLookup(t, code, pick, now) ==
    LET i == Query(t, code)
        s == t[i]
        first == FirstTurnChoices(s)[pick]
    IN  IF i = 0 THEN Result(t, Ok([status |-> "ok", first_turn |-> None]))
        ELSE Result(Commit(t, i, [s EXCEPT !.status = "playing",
                                           !.current_turn = first,
                                           !.last_update = now]),
                    Ok([status |-> "ok", first_turn |-> first]))

\* pick is the index random.choice draws.
start_game(t, code, pick, now) ==
    LET i == Query(t, code)
        s == t[i]
        first == FirstTurnChoices(s)[pick]
    IN  IF i = 0 THEN Result(t, Fail("NotFound"))
        ELSE Result(Commit(t, i, [s EXCEPT !.status = "playing",
                                           !.current_turn = first,
                                           !.last_update = now]),
                    Ok([status |-> "ok", first_turn |-> first]))

(***************************************************************************)
(* The state: the game_sessions table (a row's id is its index), the time  *)
(* datetime.utcnow() returns, the last request served with its response,   *)
(* and the create_game calls in flight.                                    *)
(***************************************************************************)
Idle == [pc |-> "idle"]

Init ==
    /\ rows = << >>
    /\ clock = 0
    /\ ret = [op |-> "none", code |-> None, user |-> None,
              resp |-> Ok(EmptyDict)]
    /\ th = [x \in Threads |-> Idle]

\* user is the name the request carries (host_name, guest_name, username).
Served(op, code, user, r) ==
    /\ rows' = r.rows
    /\ ret' = [op |-> op, code |-> code, user |-> user, resp |-> r.resp]
    /\ UNCHANGED <<clock, th>>

\* Time passes between requests.
Tick ==
    /\ clock < MaxTime
    /\ clock' = clock + 1
    /\ UNCHANGED <<rows, ret, th>>

\* The whole of create_game: the loop ends with a code no row carries.
CreateGame ==
    /\ Len(rows) < MaxSessions
    /\ \E host_name \in HostSamples, settings \in SettingsSamples,
          code \in Codes, seed \in SeedSamples :
          /\ CodeFree(rows, code)
          /\ Served("create_game", code, host_name,
                    InsertSession(rows, NewSession(code, host_name, settings,
                                                   seed, clock)))

JoinGame ==
    \E code \in Codes, guest_name \in Names :
        Served("join_game", code, guest_name, join_game(rows, guest_name, code, clock))

GameStatus ==
    \E code \in Codes : Served("game_status", code, None, game_status(rows, code))

UpdateBoard ==
    \E code \in Codes, username \in Names, board_state \in BoardSamples :
        Served("update_board", code, username,
               update_board(rows, code, username, board_state, clock))

MakeMove ==
    \E code \in Codes, username \in Names, move_data \in MoveSamples,
       end_turn \in BOOLEAN :
        Served("make_move", code, username,
               make_move(rows, code, username, move_data, end_turn, clock))

FinishGame ==
    \E code \in Codes : Served("finish_game", code, None, finish_game(rows, code))

AbortGame ==
    \E code \in Codes : Served("abort_game", code, None, abort_game(rows, code))

StartGame ==
    \E code \in Codes, pick \in 1 .. 2 :
        Served("start_game", code, None, start_game(rows, code, pick, clock))

Next ==
    \/ Tick
    \/ CreateGame
    \/ JoinGame
    \/ GameStatus
    \/ UpdateBoard
    \/ MakeMove
    \/ FinishGame
    \/ AbortGame
    \/ StartGame

Spec == Init /\ [][Next]_vars

(***************************************************************************)
(* create_game calls in flight. A call is split where it reaches the       *)
(* database: each pass of the loop draws a code and runs its SELECT, and   *)
(* db.commit() runs the INSERT.                                            *)
(***************************************************************************)
CreateCall(x) ==
    /\ th[x].pc = "idle"
    /\ \E host_name \in HostSamples, settings \in SettingsSamples :
          th' = [th EXCEPT ![x] = [pc |-> "loop", host_name |-> host_name,
                                   settings |-> settings, tries |-> 0]]
    /\ UNCHANGED <<rows, clock, ret>>

\* A pass of the loop that finds the code free: break.
CreateLoopBreak(x) ==
    /\ th[x].pc = "loop"
    /\ \E code \in Codes :
          /\ CodeFree(rows, code)
          /\ th' = [th EXCEPT ![x] = [pc |-> "insert",
                                      host_name |-> th[x].host_name,
                                      settings |-> th[x].settings,
                                      tries |-> th[x].tries,
                                      code |-> code]]
    /\ UNCHANGED <<rows, clock, ret>>

\* A pass of the loop that finds the code taken: draw again.
CreateLoopRetry(x) ==
    /\ th[x].pc = "loop"
    /\ th[x].tries < MaxTries
    /\ \E code \in Codes : ~CodeFree(rows, code)
    /\ th' = [th EXCEPT ![x].tries = th[x].tries + 1]
    /\ UNCHANGED <<rows, clock, ret>>

\* game_seed = random.randint(...); db.add(new_session); db.commit(); return
CreateInsert(x) ==
    /\ th[x].pc = "insert"
    /\ \E seed \in SeedSamples :
          LET r == InsertSession(rows, NewSession(th[x].code, th[x].host_name,
                                                  th[x].settings, seed, clock))
          IN  /\ rows' = r.rows
              /\ ret' = [op |-> "create_game", code |-> th[x].code,
                         user |-> th[x].host_name, resp |-> r.resp]
              /\ th' = [th EXCEPT ![x] = [pc |-> "done", code |-> th[x].code,
                                          resp |-> r.resp]]
    /\ UNCHANGED clock

NextCreate ==
    \E x \in Threads :
        \/ CreateCall(x)
        \/ CreateLoopBreak(x)
        \/ CreateLoopRetry(x)
        \/ CreateInsert(x)

SpecCreate == Init /\ [][NextCreate]_vars

(***************************************************************************)
(* create_game calls in flight with the loop left unbounded: a pass draws  *)
(* a code, runs the SELECT and goes round again when the code is taken.    *)
(* Every thread keeps running, and random.choices, drawing again and       *)
(* again, returns every code again and again.                              *)
(***************************************************************************)
\* code = ''.join(random.choices(string.digits, k=6))
CreateDraw(x, code) ==
    /\ th[x].pc = "loop"
    /\ th' = [th EXCEPT ![x] = [pc |-> "select",
                                host_name |-> th[x].host_name,
                                settings |-> th[x].settings,
                                tries |-> th[x].tries,
                                code |-> code]]
    /\ UNCHANGED <<rows, clock, ret>>

\* if not db.query(GameSession).filter(GameSession.code == code).first():
\*     break
CreateSelect(x) ==
    /\ th[x].pc = "select"
    /\ th' = [th EXCEPT ![x] =
                 IF CodeFree(rows, th[x].code)
                 THEN [pc |-> "insert",
                       host_name |-> th[x].host_name,
                       settings |-> th[x].settings,
                       tries |-> th[x].tries,
                       code |-> th[x].code]
                 ELSE [pc |-> "loop",
                       host_name |-> th[x].host_name,
                       settings |-> th[x].settings,
                       tries |-> th[x].tries]]
    /\ UNCHANGED <<rows, clock, ret>>

NextCreateLive ==
    \E x \in Threads :
        \/ CreateCall(x)
        \/ \E code \in Codes : CreateDraw(x, code)
        \/ CreateSelect(x)
        \/ CreateInsert(x)

FairCreate ==
    \A x \in Threads :
        /\ WF_vars(CreateSelect(x))
        /\ WF_vars(CreateInsert(x))
        /\ \A code \in Codes : SF_vars(CreateDraw(x, code))

SpecCreateLive == Init /\ [][NextCreateLive]_vars /\ FairCreate

(***************************************************************************)
(* Requests on a session in flight. Each request has its own database      *)
(* session and reaches the database twice: the SELECT of db.query(...)     *)
(* loads the row, and db.commit() flushes an UPDATE of the attributes      *)
(* whose value differs from the loaded one. Other requests run in between. *)
(***************************************************************************)
\* The UPDATE db.commit() flushes: the columns of new that differ from the
\* loaded row snap are written to the row with id i, the others keep the
\* value the table holds.
Flush(t, i, snap, new) ==
    [t EXCEPT ![i] = [f \in DOMAIN new |->
                          IF new[f] # snap[f] THEN new[f] ELSE t[i][f]]]

\* The request of thread x has run up to db.commit(): r is what the handler
\* computes from the table it read.
Loaded(x, op, code, user, end_turn, r) ==
    /\ th' = [th EXCEPT ![x] =
                 IF r.resp.kind = "ok"
                 THEN [pc |-> "commit", op |-> op, code |-> code,
                       user |-> user, end_turn |-> end_turn,
                       id |-> Query(rows, code),
                       snap |-> rows[Query(rows, code)],
                       new |-> r.rows[Query(rows, code)],
                       resp |-> r.resp]
                 ELSE [pc |-> "done", op |-> op, code |-> code,
                       resp |-> r.resp]]
    /\ UNCHANGED <<rows, clock, ret>>

JoinCall(x) ==
    /\ th[x].pc = "idle"
    /\ \E code \in Codes, guest_name \in Names :
          Loaded(x, "join_game", code, guest_name, FALSE,
                 join_game(rows, guest_name, code, clock))

MoveCall(x) ==
    /\ th[x].pc = "idle"
    /\ \E code \in Codes, username \in Names, move_data \in MoveSamples,
          end_turn \in BOOLEAN :
          Loaded(x, "make_move", code, username, end_turn,
                 make_move(rows, code, username, move_data, end_turn, clock))

BoardCall(x) ==
    /\ th[x].pc = "idle"
    /\ \E code \in Codes, username \in Names, board_state \in BoardSamples :
          Loaded(x, "update_board", code, username, FALSE,
                 update_board(rows, code, username, board_state, clock))

\* db.commit() and the return of the handler.
CommitCall(x) ==
    /\ th[x].pc = "commit"
    /\ rows' = Flush(rows, th[x].id, th[x].snap, th[x].new)
    /\ th' = [th EXCEPT ![x] = [pc |-> "done", op |-> th[x].op,
                                code |-> th[x].code, resp |-> th[x].resp]]
    /\ UNCHANGED <<clock, ret>>

\* The table after one create_game, and after a join_game of the session
\* or before any, with no request in flight.
InitConc ==
    /\ \E host_name \in HostSamples, settings \in SettingsSamples,
          code \in Codes, seed \in SeedSamples, joined \in BOOLEAN :
          LET c == InsertSession(<< >>, NewSession(code, host_name, settings,
                                                  seed, 0))
              j == join_game(c.rows, "bob", code, 0)
          IN  IF joined
              THEN /\ rows = j.rows
                   /\ ret = [op |-> "join_game", code |-> code,
                             user |-> "bob", resp |-> j.resp]
              ELSE /\ rows = c.rows
                   /\ ret = [op |-> "create_game", code |-> code,
                             user |-> host_name, resp |-> c.resp]
    /\ clock = 0
    /\ th = [x \in Threads |-> Idle]

NextConc ==
    \E x \in Clients :
        \/ JoinCall(x)
        \/ MoveCall(x)
        \/ BoardCall(x)
        \/ CommitCall(x)

SpecConc == InitConc /\ [][NextConc]_vars

(***************************************************************************)
(* Properties.                                                             *)
(***************************************************************************)
Known(code) == Query(rows, code) # 0
Sess(code) == rows[Query(rows, code)]
\* The row with the code's id in another table.
SessIn(t, code) == t[Query(rows, code)]
\* The token a board document carries under 'turn'.
TurnToken(board_state) == DictGet(board_state, "turn")

\* C1: make_move by a username other than the session's current_turn fails
\* with NotYourTurn and leaves the table as it was, for end_turn true and
\* false.
C1_NotYourTurnNoChange ==
    \A code \in Codes, username \in Names, move_data \in MoveSamples,
       end_turn \in BOOLEAN :
        (Known(code) /\ username # Sess(code).current_turn) =>
            LET r == make_move(rows, code, username, move_data, end_turn, clock)
            IN  r.resp.kind = "NotYourTurn" /\ r.rows = rows

C1_Witness ==
    /\ ret.op = "make_move"
    /\ Known(ret.code)
    /\ ret.user # Sess(ret.code).current_turn
    /\ Sess(ret.code).status = "playing"
    /\ ret.resp.kind = "NotYourTurn"

\* C2: make_move by the owner of the turn succeeds and stores move_data in
\* last_move; with end_turn the turn passes from the host to guest_name and
\* from the guest to host_name, without end_turn current_turn stays.
C2_MoveAndFlip ==
    \A code \in Codes, username \in Names, move_data \in MoveSamples,
       end_turn \in BOOLEAN :
        (Known(code) /\ username = Sess(code).current_turn) =>
            LET s == Sess(code)
                r == make_move(rows, code, username, move_data, end_turn, clock)
                n == SessIn(r.rows, code)
            IN  /\ r.resp.kind = "ok"
                /\ n.last_move = move_data
                /\ (~end_turn) => n.current_turn = s.current_turn
                /\ (end_turn /\ s.current_turn = s.host_name) =>
                       n.current_turn = s.guest_name
                /\ (end_turn /\ s.current_turn # s.host_name) =>
                       n.current_turn = s.host_name

C2_Witness ==
    /\ ret.op = "make_move"
    /\ ret.resp.kind = "ok"
    /\ Known(ret.code)
    /\ ret.user = Sess(ret.code).host_name
    /\ GuestPresent(Sess(ret.code))
    /\ Sess(ret.code).current_turn = Sess(ret.code).guest_name
    /\ Sess(ret.code).last_move \in MoveSamples

\* C3: in every state current_turn of every session is its host or a guest
\* that has joined.
C3_TurnIsParticipant ==
    \A i \in 1 .. Len(rows) :
        \/ rows[i].current_turn = rows[i].host_name
        \/ /\ rows[i].guest_name # None
           /\ rows[i].current_turn = rows[i].guest_name

\* C4: a finished or aborted session keeps its status in every later step,
\* and a playing session never goes back to waiting.
C4_StatusForward ==
    [][\A i \in 1 .. Len(rows) :
          /\ rows[i].status \in {"finished", "aborted"} =>
                 rows'[i].status = rows[i].status
          /\ rows[i].status = "playing" => rows'[i].status # "waiting"]_vars

\* C5: once a join has stored a guest, every join_game on the code fails
\* with AlreadyFull and leaves the table as it was.
C5_SecondJoinFull ==
    \A code \in Codes, guest_name \in Names :
        (Known(code) /\ Sess(code).guest_name # None) =>
            LET r == join_game(rows, guest_name, code, clock)
            IN  r.resp.kind = "AlreadyFull" /\ r.rows = rows

\* C6 as stated: join_game with the host's name fails with SelfJoin in every
\* state of the session.
C6_AlwaysSelfJoin ==
    \A code \in Codes :
        Known(code) =>
            join_game(rows, Sess(code).host_name, code, clock).resp.kind
                = "SelfJoin"

\* C6 amended: join_game with the host's name always fails and leaves the
\* table as it was; the failure is AlreadyFull when a guest is stored and
\* SelfJoin otherwise.
C6_HostJoinFails ==
    \A code \in Codes :
        Known(code) =>
            LET s == Sess(code)
                r == join_game(rows, s.host_name, code, clock)
            IN  /\ r.rows = rows
                /\ r.resp.kind =
                       IF s.guest_name \in Names \ {""} THEN "AlreadyFull"
                       ELSE "SelfJoin"

C6_Witness ==
    /\ ret.op = "join_game"
    /\ Known(ret.code)
    /\ ret.user = Sess(ret.code).host_name
    /\ Sess(ret.code).guest_name = "bob"
    /\ ret.resp.kind = "AlreadyFull"

\* C7: however the SELECTs and INSERTs of concurrent create_game calls
\* interleave, the calls that return a code return different codes, and no
\* two rows of the table carry the same code.
C7_CodesDistinct ==
    /\ \A i, j \in 1 .. Len(rows) : i # j => rows[i].code # rows[j].code
    /\ \A x, y \in Threads :
          (/\ x # y
           /\ th[x].pc = "done" /\ th[x].resp.kind = "ok"
           /\ th[y].pc = "done" /\ th[y].resp.kind = "ok")
          => th[x].resp.body.code # th[y].resp.body.code

\* Two calls passed the loop with the same code and one has inserted it.
C7_Witness ==
    \E x, y \in Threads :
        /\ th[x].pc = "done" /\ th[x].resp.kind = "ok"
        /\ th[y].pc = "insert"
        /\ th[y].code = th[x].resp.body.code

\* C8: right after a start_game that succeeded the session is playing, its
\* current_turn is the host or the guest, and first_turn of the response is
\* the stored current_turn.
C8_AfterStart ==
    (ret.op = "start_game" /\ ret.resp.kind = "ok") =>
        LET s == Sess(ret.code)
        IN  /\ s.status = "playing"
            /\ s.current_turn \in {s.host_name, s.guest_name} \ {None}
            /\ ret.resp.body.first_turn = s.current_turn

\* C9: update_board on a session succeeds and stores the submitted document
\* as board_state; a 'blue' token sets current_turn to host_name and a 'red'
\* token to guest_name, whoever sent it and whatever current_turn was.
C9_BoardAndToken ==
    \A code \in Codes, username \in Names, board_state \in BoardSamples :
        Known(code) =>
            LET s == Sess(code)
                r == update_board(rows, code, username, board_state, clock)
                n == SessIn(r.rows, code)
            IN  /\ r.resp.kind = "ok"
                /\ n.board_state = board_state
                /\ TurnToken(board_state) = "blue" =>
                       n.current_turn = s.host_name
                /\ TurnToken(board_state) = "red" =>
                       n.current_turn = s.guest_name

C9_Witness ==
    /\ ret.op = "update_board"
    /\ ret.resp.kind = "ok"
    /\ Known(ret.code)
    /\ ret.user = Sess(ret.code).host_name
    /\ Sess(ret.code).board_state = [turn |-> "red"]
    /\ Sess(ret.code).guest_name = "bob"
    /\ Sess(ret.code).current_turn = "bob"

\* C10: finish_game and abort_game always answer ok; on a code without a
\* session the table stays as it was, on a session only its status changes,
\* to finished / aborted, and the same call again changes nothing more.
C10_TerminateIdempotent ==
    \A code \in Codes :
        LET i == Query(rows, code)
            f == finish_game(rows, code)
            a == abort_game(rows, code)
        IN  /\ f.resp.kind = "ok" /\ a.resp.kind = "ok"
            /\ i = 0 => (f.rows = rows /\ a.rows = rows)
            /\ i # 0 =>
                   /\ f.rows = [rows EXCEPT ![i].status = "finished"]
                   /\ a.rows = [rows EXCEPT ![i].status = "aborted"]
            /\ finish_game(f.rows, code) = f
            /\ abort_game(a.rows, code) = a

C10_Witness ==
    /\ ret.op = "abort_game"
    /\ ret.resp.kind = "ok"
    /\ Known(ret.code)
    /\ Sess(ret.code).status = "aborted"
    /\ Sess(ret.code).last_move \in MoveSamples

\* C11: in every state, under every interleaving of join_game calls, a
\* session with a guest has a guest_name other than its host_name.
C11_GuestNotHost ==
    \A i \in 1 .. Len(rows) :
        rows[i].guest_name # None => rows[i].guest_name # rows[i].host_name

\* A join that loaded the session without a guest is about to commit after
\* another join has stored one.
C11_Witness ==
    \E x \in Clients :
        /\ th[x].pc = "commit"
        /\ th[x].op = "join_game"
        /\ th[x].snap.guest_name = None
        /\ rows[th[x].id].guest_name \in {"bob", ""}
        /\ rows[th[x].id].guest_name # rows[th[x].id].host_name

\* C14: every write is applied to the row it was computed from: when a
\* request commits, the row is still as the request loaded it, and a
\* make_move commits only while its username is current_turn.
C14_AtomicReadModifyWrite ==
    [][\A x \in Clients :
          (th[x].pc = "commit" /\ th'[x].pc = "done") =>
              /\ rows[th[x].id] = th[x].snap
              /\ th[x].op = "make_move" =>
                     rows[th[x].id].current_turn = th[x].user]_vars

\* C15: under every interleaving of join_game calls a stored guest_name is
\* never written again and no join_game commits on a session that has one.
C15_GuestWrittenOnce ==
    [][\A i \in 1 .. Len(rows) :
          rows[i].guest_name # None =>
              /\ rows'[i].guest_name = rows[i].guest_name
              /\ \A x \in Clients :
                    ~(/\ th[x].pc = "commit" /\ th'[x].pc = "done"
                      /\ th[x].op = "join_game" /\ th[x].id = i)]_vars

\* C12: join_game, start_game, game_status, update_board and make_move on a
\* code without a session answer NotFound and leave the table as it was.
C12_UnknownCodeNotFound ==
    \A code \in Codes :
        ~Known(code) =>
            /\ \A guest_name \in Names :
                  join_game(rows, guest_name, code, clock)
                      = Result(rows, Fail("NotFound"))
            /\ \A pick \in 1 .. 2 :
                  start_game(rows, code, pick, clock)
                      = Result(rows, Fail("NotFound"))
            /\ game_status(rows, code) = Result(rows, Fail("NotFound"))
            /\ \A username \in Names, board_state \in BoardSamples :
                  update_board(rows, code, username, board_state, clock)
                      = Result(rows, Fail("NotFound"))
            /\ \A username \in Names, move_data \in MoveSamples,
                  end_turn \in BOOLEAN :
                  make_move(rows, code, username, move_data, end_turn, clock)
                      = Result(rows, Fail("NotFound"))

C12_Witness ==
    /\ ret.op = "start_game"
    /\ ~Known(ret.code)
    /\ ret.resp.kind = "NotFound"
    /\ Len(rows) = 1
    /\ rows[1].status = "waiting"

\* C13: no step changes settings, seed, host_name or code of a session or
\* removes a session, and a join_game that succeeds answers with the stored
\* settings and seed.
C13_CreatedFieldsKept ==
    [][/\ Len(rows') >= Len(rows)
       /\ \A i \in 1 .. Len(rows) :
             /\ rows'[i].settings = rows[i].settings
             /\ rows'[i].seed = rows[i].seed
             /\ rows'[i].host_name = rows[i].host_name
             /\ rows'[i].code = rows[i].code
       /\ (ret'.op = "join_game" /\ ret'.resp.kind = "ok") =>
             /\ ret'.resp.body.settings
                    = rows'[Query(rows', ret'.code)].settings
             /\ ret'.resp.body.seed = rows'[Query(rows', ret'.code)].seed]_vars

C13_Witness ==
    /\ ret.op = "join_game"
    /\ ret.resp.kind = "ok"
    /\ ret.resp.body.seed = 1000000
    /\ Sess(ret.code).seed = 1000000
    /\ Sess(ret.code).settings \in SettingsSamples
    /\ ret.resp.body.settings = Sess(ret.code).settings

\* C16: every create_game call that returns, returns a code and a seed; none
\* ends in a failure.
C16_CreateNeverFails ==
    \A x \in Threads : th[x].pc = "done" => th[x].resp.kind = "ok"

\* C18 as stated: every stored and returned seed is at least 0 and below
\* 1000000, and every code has 6 characters.
C18_SeedHalfOpen ==
    /\ \A i \in 1 .. Len(rows) :
          rows[i].seed \in 0 .. 999999 /\ Len(rows[i].code) = 6
    /\ \A x \in Threads :
          (th[x].pc = "done" /\ th[x].resp.kind = "ok") =>
              /\ th[x].resp.body.seed \in 0 .. 999999
              /\ Len(th[x].resp.body.code) = 6

\* C18 amended: every stored and returned seed is at least 0 and at most
\* 1000000, and every code has 6 characters.
C18_SeedClosedRange ==
    /\ \A i \in 1 .. Len(rows) :
          rows[i].seed \in 0 .. 1000000 /\ Len(rows[i].code) = 6
    /\ \A x \in Threads :
          (th[x].pc = "done" /\ th[x].resp.kind = "ok") =>
              /\ th[x].resp.body.seed \in 0 .. 1000000
              /\ Len(th[x].resp.body.code) = 6

C18_Witness ==
    \E x \in Threads :
        /\ th[x].pc = "done"
        /\ th[x].resp.kind = "ok"
        /\ th[x].resp.body.seed = 1000000
        /\ \E i \in 1 .. Len(rows) :
              rows[i].code = th[x].resp.body.code /\ rows[i].seed = 1000000

\* C19: a step that changes any field of a session sets its last_update to
\* the time of the step.
C19_LastUpdateTracksChange ==
    [][\A i \in 1 .. Len(rows) :
          rows'[i] # rows[i] => rows'[i].last_update = clock']_vars

\* C20: current_turn stays as it was under join_game, game_status,
\* finish_game, abort_game, a make_move without end_turn or one that fails,
\* and an update_board whose document carries no 'blue' or 'red' token; and
\* the same update_board a second time leaves board_state and current_turn
\* as the first left them.
C20_TurnFrame ==
    \A code \in Codes :
        Known(code) =>
            LET cur == Sess(code).current_turn
            IN  /\ \A guest_name \in Names :
                      SessIn(join_game(rows, guest_name, code, clock).rows,
                             code).current_turn = cur
                /\ game_status(rows, code).rows = rows
                /\ SessIn(finish_game(rows, code).rows, code).current_turn = cur
                /\ SessIn(abort_game(rows, code).rows, code).current_turn = cur
                /\ \A username \in Names, move_data \in MoveSamples,
                      end_turn \in BOOLEAN :
                      LET r == make_move(rows, code, username, move_data,
                                         end_turn, clock)
                      IN  (~end_turn \/ r.resp.kind # "ok") =>
                              SessIn(r.rows, code).current_turn = cur
                /\ \A username \in Names, board_state \in BoardSamples :
                      LET r == update_board(rows, code, username, board_state,
                                            clock)
                          q == update_board(r.rows, code, username,
                                            board_state, clock)
                      IN  /\ TurnToken(board_state) \notin {"blue", "red"} =>
                                 SessIn(r.rows, code).current_turn = cur
                          /\ SessIn(q.rows, code).board_state
                                 = SessIn(r.rows, code).board_state
                          /\ SessIn(q.rows, code).current_turn
                                 = SessIn(r.rows, code).current_turn

C20_Witness ==
    /\ ret.op = "update_board"
    /\ ret.resp.kind = "ok"
    /\ Known(ret.code)
    /\ Sess(ret.code).board_state = [turn |-> "green"]
    /\ Sess(ret.code).guest_name = "bob"
    /\ Sess(ret.code).current_turn = "bob"

\* C17: under fair scheduling every create_game call that has entered its
\* loop returns.
C17_CreateReturns ==
    \A x \in Threads : (th[x].pc = "loop") ~> (th[x].pc = "done")
====
